---- MODULE Spec2Model ----
(***************************************************************************)
(* Model of the MT5 bridge: the Session Server (mt5_bridge_server.py) and  *)
(* the one-shot Command Executor (mt5_bridge.py).                          *)
(*                                                                         *)
(* The Session Server is an asyncio program: one event loop runs the       *)
(* per-connection handlers (handle_client).  A handler holds the loop from *)
(* one await to the next; the variable running names the handler that      *)
(* holds it.  Every call into the MetaTrader5 module is one action, so a   *)
(* command that makes several native calls takes several steps.            *)
(*                                                                         *)
(* The terminal itself is outside the repository.  Its session state is    *)
(* the record mt: whether the IPC connection is initialized, the account   *)
(* the session is authorized on, and the account the terminal remembers    *)
(* (initialize() without arguments attaches to the last trading account).  *)
(* Outcomes the terminal decides (reachable or not, data or None, order    *)
(* done or rejected) are nondeterministic inputs of the actions.           *)
(*                                                                         *)
(* place_order and close_position are also followed on their own           *)
(* (SpecTrade), from every argument list and every set of open positions   *)
(* within the bounds, keeping the requests they pass to mt5.order_send.    *)
(***************************************************************************)
EXTENDS Integers, Sequences, FiniteSets, TLC

\* ------------------------------------------------------------------ bounds
NClients == 2

Clients == 1..NClients

\* ------------------------------------------------------------- vocabulary
Idle == {}              \* no handler holds the event loop
Absent == "<absent>"    \* a key that the JSON object does not have
NoneId == "None"        \* Python None as an identifier
NoAccount == "NoAccount"
NoStep == "-"

Ids == {"a"}

GoodLogin == "1001"     \* credentials the terminal accepts (account B)
BadLogin == "9999"      \* credentials the terminal rejects
NumStrs == {GoodLogin, BadLogin, "0", "1", "5"}
IsNum(s) == s \in NumStrs

Commands ==
    {"test_connection", "connect_with_credentials", "get_symbols",
     "get_market_data", "get_tick", "place_order", "get_positions",
     "close_position", "shutdown"}

QueryCommands ==
    {"get_symbols", "get_market_data", "get_tick", "place_order",
     "get_positions", "close_position"}

\* The argument lists a client sends with each command.
ArgsFor(cmd) ==
    CASE cmd = "connect_with_credentials" ->
            {<<GoodLogin, "pw", "srv">>, <<BadLogin, "pw", "srv">>,
             <<"x", "pw", "srv">>, <<GoodLogin>>}
      [] cmd = "get_market_data" ->
            {<<"EURUSD">>, <<"EURUSD", "M1", "x">>, <<>>}
      [] cmd = "get_tick" -> {<<"EURUSD">>, <<>>}
      [] cmd = "place_order" ->
            {<<"EURUSD", "0", "1">>, <<"EURUSD">>, <<"EURUSD", "x", "1">>}
      [] cmd = "close_position" -> {<<"5">>, <<"x">>, <<>>}
      [] OTHER -> {<<>>}

\* What json.loads does with a received message:
\*   badjson      raises json.JSONDecodeError
\*   undecodable  raises another exception (UnicodeDecodeError for a binary
\*                frame that is not UTF-8, RecursionError for nesting deeper
\*                than the interpreter's limit)
\*   nonobject    returns a list, a string or a number
\*   obj          returns a dict
ObjMessages ==
    { [kind |-> "obj", id |-> i, command |-> cmd, args |-> a] :
        i \in Ids \cup {NoneId}, cmd \in Commands \cup {"bogus"},
        a \in UNION { ArgsFor(k) : k \in Commands } }

Messages ==
    { m \in ObjMessages : m.args \in ArgsFor(m.command) }
    \cup { [kind |-> k, id |-> NoneId, command |-> Absent, args |-> <<>>] :
            k \in {"badjson", "undecodable", "nonobject"} }

\* ------------------------------------------------- results and envelopes
Result(ok, payload, account, err) ==
    [success |-> ok, payload |-> payload, account |-> account, error |-> err]

Ok(payload) == Result(TRUE, payload, NoAccount, Absent)
OkAccount(acct) == Result(TRUE, "account", acct, Absent)
Fail(err) == Result(FALSE, Absent, NoAccount, err)
NoResult == Result(FALSE, Absent, NoAccount, Absent)

\* process_command's return on the normal path: the adapter's result is
\* nested under "result" and its success flag is copied to the top.
Envelope(id, result) ==
    [id |-> id, success |-> result.success, hasResult |-> TRUE,
     result |-> result, error |-> Absent]

\* The envelope of an except branch: a top-level error, no result.
ErrEnvelope(id, err) ==
    [id |-> id, success |-> FALSE, hasResult |-> FALSE,
     result |-> NoResult, error |-> err]

NoEnvelope == ErrEnvelope(NoneId, Absent)

InvalidJson == ErrEnvelope(NoneId, "Invalid JSON format")

\* ------------------------------------------------------ the terminal (mt5)
MtInitialize(t, ok) ==
    IF ok
    THEN IF t.init THEN t ELSE [t EXCEPT !.init = TRUE, !.acct = t.last]
    ELSE [t EXCEPT !.init = FALSE, !.acct = NoAccount]

MtShutdown(t) == [t EXCEPT !.init = FALSE, !.acct = NoAccount]

MtAccepts(t, login) == t.init /\ login = GoodLogin

\* A rejected login leaves the session unauthorized; whether the terminal
\* still remembers its last trading account is the terminal's choice (keep).
MtLogin(t, login, keep) ==
    IF MtAccepts(t, login)
    THEN [t EXCEPT !.acct = "B", !.last = "B"]
    ELSE [t EXCEPT !.acct = NoAccount,
                   !.last = IF keep THEN t.last ELSE NoAccount]

MtAccountInfo(t, avail) ==
    IF t.init /\ avail /\ t.acct # NoAccount THEN t.acct ELSE NoAccount

\* A query (symbols_get, copy_rates_from_pos, symbol_info_tick,
\* positions_get): data, or None when there is no session or no data.
MtQuery(t, avail) == IF t.init /\ avail THEN "data" ELSE "None"

\* order_send: "done", "rejected" (another retcode) or "None".
MtOrderSend(t, outcome) == IF t.init THEN outcome ELSE "None"

OrderOutcomes == {"done", "rejected", "None"}

VARIABLES
    srv,        \* the server process: "main", "start", "serving", "exited"
    mt,         \* the server process's terminal session
    clients,    \* self.clients
    pc,         \* per connection: "closed", "recv", "run", "crashed"
    data,       \* per connection: the handler's local variable data
    req,        \* per connection: the message being answered
    step,       \* per connection: the next native call of the command
    prev,       \* per connection: the session's account when the command began
    sent,       \* the envelope the last step sent, with the message it answers
    running,    \* the set holding the handler that has the event loop, or Idle
    lost,       \* the account of the session a rejected login replaced
    xpc,        \* Command Executor: position in main
    xargv,      \* Command Executor: sys.argv[1:]
    xmt,        \* Command Executor: the process's terminal session
    xout,       \* Command Executor: JSON objects printed to stdout
    xshut,      \* Command Executor: mt5.shutdown() calls made
    xraised,    \* Command Executor: an exception left main uncaught
    call,       \* adapter call: the entry point, the operation, its arguments
    tpc,        \* adapter call: position in the operation
    positions,  \* adapter call: the terminal's open positions
    position,   \* adapter call: close_position's local variable position
    orders,     \* adapter call: the requests passed to mt5.order_send
    result,     \* adapter call: what mt5.order_send returned
    ret         \* adapter call: the value the operation returned

srvVars == <<srv, mt, clients, pc, data, req, step, prev, sent,
             running, lost>>
xVars == <<xpc, xargv, xmt, xout, xshut, xraised>>
tVars == <<call, tpc, positions, position, orders, result, ret>>
vars == <<srvVars, xVars, tVars>>

Unbound == [kind |-> "unbound", id |-> NoneId]

NoReq == [kind |-> "none", id |-> NoneId, command |-> Absent, args |-> <<>>]

\* A sent envelope, with the message it answers.
Sent(to, m, env) ==
    [to |-> to, kind |-> m.kind, id |-> m.id, command |-> m.command,
     env |-> env]

NoSent == Sent({}, NoReq, NoEnvelope)

\* The terminal at process start: it may or may not remember an account.
InitMt == { [init |-> FALSE, acct |-> NoAccount, last |-> l] :
              l \in {"A", NoAccount} }

SrvInit ==
    /\ srv = "main"
    /\ mt \in InitMt
    /\ clients = {}
    /\ pc = [c \in Clients |-> "closed"]
    /\ data = [c \in Clients |-> Unbound]
    /\ req = [c \in Clients |-> NoReq]
    /\ step = [c \in Clients |-> NoStep]
    /\ prev = [c \in Clients |-> NoAccount]
    /\ sent = NoSent
    /\ running = Idle
    /\ lost = NoAccount

XIdle ==
    /\ xpc = "off"
    /\ xargv = <<>>
    /\ xmt \in { [init |-> FALSE, acct |-> NoAccount, last |-> "A"] }
    /\ xout = 0
    /\ xshut = 0
    /\ xraised = FALSE

\* An adapter operation's return value, as far as the order operations use
\* it: the success flag, the error text, the closed ticket.
TradeResult(ok, err, ticket) ==
    [success |-> ok, error |-> err, closed_ticket |-> ticket]

NoTicket == [t |-> "none"]

NoRet == TradeResult(FALSE, Absent, NoTicket)

NoCall == [entry |-> "none", op |-> "none", args |-> <<>>]

NoPosition == [ticket |-> 0, symbol |-> Absent, type |-> 0, volume |-> 0]

\* No adapter operation is being followed call by call.
TIdle ==
    /\ call = NoCall
    /\ tpc = "off"
    /\ positions = {}
    /\ position = NoPosition
    /\ orders = <<>>
    /\ result = NoStep
    /\ ret = NoRet

Init == SrvInit /\ XIdle /\ TIdle

\* ------------------------------------------------------- server: startup
\* main(): the availability probe.  A failed initialize() logs an error and
\* returns; otherwise the probe session is shut down and start_server runs.
Main(ok) ==
    /\ srv = "main"
    /\ IF ok
       THEN /\ srv' = "start"
            /\ mt' = MtShutdown(MtInitialize(mt, TRUE))
       ELSE /\ srv' = "exited"
            /\ mt' = MtInitialize(mt, FALSE)
    /\ sent' = NoSent
    /\ UNCHANGED <<clients, pc, data, req, step, prev, running, lost>>
    /\ UNCHANGED <<xVars, tVars>>

\* start_server(): connect_mt5(), whose failure is only logged, then
\* websockets.serve and the wait for connections.  (A bind that the
\* operating system refuses is outside the model.)
StartServer(ok) ==
    /\ srv = "start"
    /\ srv' = "serving"
    /\ mt' = MtInitialize(mt, ok)
    /\ sent' = NoSent
    /\ UNCHANGED <<clients, pc, data, req, step, prev, running, lost>>
    /\ UNCHANGED <<xVars, tVars>>

\* ------------------------------------------- server: the event loop
\* The handler that runs next: the one that holds the loop, or any handler
\* when the loop is idle.
CanStep(c) == running = {c} \/ running = Idle

AfterNativeCall_Yields(c) == Idle

\* process_command and the adapter methods contain no await: after a native
\* call the handler still holds the loop.
AfterNativeCall(c) == {c}

\* The handler sends env in answer to message m and waits for the next
\* message.  await websocket.send may suspend the handler, but nothing it
\* holds changes there: the send is taken with the step that built env.
Answer(c, m, env) ==
    /\ sent' = Sent({c}, m, env)
    /\ pc' = [pc EXCEPT ![c] = "recv"]
    /\ req' = [req EXCEPT ![c] = NoReq]
    /\ step' = [step EXCEPT ![c] = NoStep]
    /\ prev' = [prev EXCEPT ![c] = NoAccount]
    /\ running' = Idle

\* process_command returns the adapter's result (lines 87-91).
Return(c, r) == Answer(c, req[c], Envelope(req[c].id, r))

\* An exception inside process_command's try (lines 93-99).
Raise(c, err) == Answer(c, req[c], ErrEnvelope(req[c].id, err))

\* The command goes on to its next native call.
Continue(c, s) ==
    /\ sent' = NoSent
    /\ step' = [step EXCEPT ![c] = s]
    /\ running' = AfterNativeCall(c)
    /\ UNCHANGED <<pc, req, prev>>

\* Python's check of the call self.<method>(*args) against the signature.
ArityOk(cmd, n) ==
    CASE cmd = "connect_with_credentials" -> n = 3
      [] cmd = "get_market_data" -> n >= 1 /\ n <= 3
      [] cmd = "get_tick" -> n = 1
      [] cmd = "place_order" -> n >= 3 /\ n <= 7
      [] cmd = "close_position" -> n = 1
      [] OTHER -> TRUE

FirstStep(cmd) ==
    CASE cmd = "test_connection" -> "tc_init"
      [] cmd = "connect_with_credentials" -> "cwc_shutdown"
      [] cmd = "get_symbols" -> "symbols"
      [] cmd = "get_market_data" -> "rates"
      [] cmd = "get_tick" -> "tick"
      [] cmd = "place_order" -> "order"
      [] cmd = "get_positions" -> "positions"
      [] cmd = "close_position" -> "cp_lookup"
      [] cmd = "shutdown" -> "shutdown"
      [] OTHER -> NoStep

\* The identifier the generic except branch of handle_client reports
\* (line 47): data.get("id") if the local data is bound, else None.
ExceptId(d) == IF d.kind = "unbound" THEN NoneId ELSE d.id

\* ----------------------------------------- server: connection handlers
Finally_Forgets(c) == clients

\* The finally clause of handle_client: self.clients.remove(websocket).
Finally(c) == clients \ {c}

\* A client connects: handle_client starts and runs to its first await.
Connect(c) ==
    /\ srv = "serving"
    /\ running = Idle
    /\ pc[c] = "closed"
    /\ clients' = clients \cup {c}
    /\ pc' = [pc EXCEPT ![c] = "recv"]
    /\ sent' = NoSent
    /\ UNCHANGED <<srv, mt, data, req, step, prev, running, lost>>
    /\ UNCHANGED <<xVars, tVars>>

\* The handler reads a message that json.loads rejects with
\* JSONDecodeError (lines 38-44).
ReceiveBadJson(c, m) ==
    /\ m.kind = "badjson"
    /\ Answer(c, m, InvalidJson)
    /\ UNCHANGED <<data, clients>>

\* json.loads raises another exception: the generic except branch
\* (lines 45-51) answers with the identifier of whatever data holds.
ReceiveUndecodable(c, m) ==
    /\ m.kind = "undecodable"
    /\ Answer(c, m, ErrEnvelope(ExceptId(data[c]), "decode exception"))
    /\ UNCHANGED <<data, clients>>

\* json.loads returns a value that is no dict: data.get raises
\* AttributeError in process_command (line 59, outside its try) and again
\* in the except branch (line 47).  The exception leaves the message loop,
\* finally removes the connection and the handler ends without an answer.
ReceiveNonObject(c, m) ==
    /\ m.kind = "nonobject"
    /\ data' = [data EXCEPT ![c] = [kind |-> "nonobject", id |-> NoneId]]
    /\ pc' = [pc EXCEPT ![c] = "crashed"]
    /\ clients' = Finally(c)
    /\ sent' = NoSent
    /\ UNCHANGED <<req, step, prev, running>>

\* json.loads returns a dict: process_command up to the adapter method's
\* first native call.
ReceiveObject(c, m) ==
    /\ m.kind = "obj"
    /\ data' = [data EXCEPT ![c] = [kind |-> "obj", id |-> m.id]]
    /\ clients' = clients
    /\ IF m.command \notin Commands
       THEN Answer(c, m, Envelope(m.id, Fail("Unknown command")))
       ELSE IF ~ArityOk(m.command, Len(m.args))
       THEN Answer(c, m, ErrEnvelope(m.id, "TypeError"))
       ELSE /\ pc' = [pc EXCEPT ![c] = "run"]
            /\ req' = [req EXCEPT ![c] = m]
            /\ step' = [step EXCEPT ![c] = FirstStep(m.command)]
            /\ prev' = [prev EXCEPT ![c] = mt.acct]
            /\ running' = {c}
            /\ sent' = NoSent

\* The loop resumes the handler with the next message m of its connection.
Receive(c, m) ==
    /\ running = Idle
    /\ pc[c] = "recv"
    /\ \/ ReceiveBadJson(c, m)
       \/ ReceiveUndecodable(c, m)
       \/ ReceiveNonObject(c, m)
       \/ ReceiveObject(c, m)
    /\ UNCHANGED <<srv, mt, lost>>
    /\ UNCHANGED <<xVars, tVars>>

\* The peer or the network closes the connection: ConnectionClosed is
\* raised at the await, caught at line 52, and finally removes the
\* connection.
PeerClose(c) ==
    /\ running = Idle
    /\ pc[c] = "recv"
    /\ clients' = Finally(c)
    /\ pc' = [pc EXCEPT ![c] = "closed"]
    /\ data' = [data EXCEPT ![c] = Unbound]
    /\ sent' = NoSent
    /\ UNCHANGED <<srv, mt, req, step, prev, running, lost>>
    /\ UNCHANGED <<xVars, tVars>>

\* The connection is lost while the handler sends its answer: websocket.send
\* raises ConnectionClosed.  Raised by the send of line 40 it is caught by
\* the generic except branch, whose own send raises it again; it then
\* leaves the message loop, is caught at line 52, and finally removes the
\* connection.
SendFails(c) ==
    /\ running = Idle
    /\ pc[c] = "recv"
    /\ sent.to = {c}
    /\ clients' = Finally(c)
    /\ pc' = [pc EXCEPT ![c] = "closed"]
    /\ data' = [data EXCEPT ![c] = Unbound]
    /\ sent' = NoSent
    /\ UNCHANGED <<srv, mt, req, step, prev, running, lost>>
    /\ UNCHANGED <<xVars, tVars>>

\* -------------------------------------- server: the adapter's native calls
\* What a native-call step leaves alone besides the terminal session.
StepFrame == UNCHANGED <<srv, clients, data>> /\ UNCHANGED <<xVars, tVars>>

InStep(c, s) == CanStep(c) /\ pc[c] = "run" /\ step[c] = s

\* connect_mt5 (test_connection): mt5.initialize().
TcInit(c, ok) ==
    /\ InStep(c, "tc_init")
    /\ mt' = MtInitialize(mt, ok)
    /\ IF ok THEN Continue(c, "tc_acct")
             ELSE Return(c, Fail("initialize() failed"))
    /\ UNCHANGED lost /\ StepFrame

\* connect_mt5: mt5.account_info().
TcAcct(c, avail) ==
    /\ InStep(c, "tc_acct")
    /\ LET info == MtAccountInfo(mt, avail) IN
         IF info = NoAccount
         THEN Return(c, Fail("Failed to get account info"))
         ELSE Return(c, OkAccount(info))
    /\ UNCHANGED <<mt, lost>> /\ StepFrame

\* connect_with_credentials: the unconditional mt5.shutdown() (line 125).
CwcShutdown(c) ==
    /\ InStep(c, "cwc_shutdown")
    /\ mt' = MtShutdown(mt)
    /\ Continue(c, "cwc_init")
    /\ UNCHANGED lost /\ StepFrame

\* connect_with_credentials: mt5.initialize() (line 127).
CwcInit(c, ok) ==
    /\ InStep(c, "cwc_init")
    /\ mt' = MtInitialize(mt, ok)
    /\ IF ok THEN Continue(c, "cwc_login")
             ELSE Return(c, Fail("initialize() failed"))
    /\ UNCHANGED lost /\ StepFrame

\* connect_with_credentials: int(login), which raises ValueError outside
\* any try of the method, then mt5.login (line 130).
CwcLogin(c, keep) ==
    /\ InStep(c, "cwc_login")
    /\ LET login == req[c].args[1] IN
         IF ~IsNum(login)
         THEN /\ Raise(c, "ValueError")
              /\ UNCHANGED <<mt, lost>>
         ELSE /\ mt' = MtLogin(mt, login, keep)
              /\ IF MtAccepts(mt, login)
                 THEN /\ Continue(c, "cwc_acct")
                      /\ lost' = NoAccount
                 ELSE /\ Continue(c, "cwc_login_failed")
                      /\ lost' = lost
    /\ StepFrame

\* connect_with_credentials: the login was rejected; mt5.last_error() and
\* mt5.shutdown() (lines 132-134).
CwcLoginFailed(c) ==
    /\ InStep(c, "cwc_login_failed")
    /\ mt' = MtShutdown(mt)
    /\ lost' = IF prev[c] # NoAccount THEN prev[c] ELSE lost
    /\ Return(c, Fail("Login failed"))
    /\ StepFrame

\* connect_with_credentials: mt5.account_info() after the login (line 136).
CwcAcct(c, avail) ==
    /\ InStep(c, "cwc_acct")
    /\ LET info == MtAccountInfo(mt, avail) IN
         IF info = NoAccount
         THEN Continue(c, "cwc_acct_failed")
         ELSE Return(c, OkAccount(info))
    /\ UNCHANGED <<mt, lost>> /\ StepFrame

\* connect_with_credentials: no account info; mt5.shutdown() (line 138).
CwcAcctFailed(c) ==
    /\ InStep(c, "cwc_acct_failed")
    /\ mt' = MtShutdown(mt)
    /\ Return(c, Fail("Failed to get account info after login"))
    /\ UNCHANGED lost /\ StepFrame

\* get_symbols: mt5.symbols_get().
GetSymbols(c, avail) ==
    /\ InStep(c, "symbols")
    /\ IF MtQuery(mt, avail) = "None"
       THEN Return(c, Fail("No symbols found"))
       ELSE Return(c, Ok("symbols"))
    /\ UNCHANGED <<mt, lost>> /\ StepFrame

\* get_market_data: int(count) inside the method's try, then
\* mt5.copy_rates_from_pos.
GetMarketData(c, avail) ==
    /\ InStep(c, "rates")
    /\ LET a == req[c].args IN
         IF Len(a) >= 3 /\ ~IsNum(a[3])
         THEN Return(c, Fail("ValueError"))
         ELSE IF MtQuery(mt, avail) = "None"
         THEN Return(c, Fail("Failed to get rates"))
         ELSE Return(c, Ok("data"))
    /\ UNCHANGED <<mt, lost>> /\ StepFrame

\* get_tick_data: mt5.symbol_info_tick.
GetTick(c, avail) ==
    /\ InStep(c, "tick")
    /\ IF MtQuery(mt, avail) = "None"
       THEN Return(c, Fail("Failed to get tick"))
       ELSE Return(c, Ok("tick"))
    /\ UNCHANGED <<mt, lost>> /\ StepFrame

\* place_order: float(volume) and int(order_type) inside the method's try,
\* then mt5.order_send.
PlaceOrder(c, outcome) ==
    /\ InStep(c, "order")
    /\ LET a == req[c].args
           res == MtOrderSend(mt, outcome) IN
         IF ~IsNum(a[2]) \/ ~IsNum(a[3])
         THEN Return(c, Fail("ValueError"))
         ELSE IF res = "None"
         THEN Return(c, Fail("Order send failed"))
         ELSE IF res # "done"
         THEN Return(c, Fail("Order failed"))
         ELSE Return(c, Ok("order"))
    /\ UNCHANGED <<mt, lost>> /\ StepFrame

\* get_positions: mt5.positions_get(); None is reported as no positions.
GetPositions(c, avail) ==
    /\ InStep(c, "positions")
    /\ IF MtQuery(mt, avail) = "None"
       THEN Return(c, Ok("positions:empty"))
       ELSE Return(c, Ok("positions"))
    /\ UNCHANGED <<mt, lost>> /\ StepFrame

\* close_position: int(ticket) inside the method's try, then
\* mt5.positions_get(ticket=...).
ClosePositionLookup(c, found) ==
    /\ InStep(c, "cp_lookup")
    /\ IF ~IsNum(req[c].args[1])
       THEN Return(c, Fail("ValueError"))
       ELSE IF MtQuery(mt, found) = "None"
       THEN Return(c, Fail("Position not found"))
       ELSE Continue(c, "cp_send")
    /\ UNCHANGED <<mt, lost>> /\ StepFrame

\* close_position: mt5.order_send of the closing order.  A None result
\* raises AttributeError at result.retcode, caught by the method's except.
ClosePositionSend(c, outcome) ==
    /\ InStep(c, "cp_send")
    /\ LET res == MtOrderSend(mt, outcome) IN
         IF res = "None"
         THEN Return(c, Fail("AttributeError"))
         ELSE IF res # "done"
         THEN Return(c, Fail("Close failed"))
         ELSE Return(c, Ok("closed_ticket"))
    /\ UNCHANGED <<mt, lost>> /\ StepFrame

\* shutdown_mt5: mt5.shutdown().
ShutdownMt5(c) ==
    /\ InStep(c, "shutdown")
    /\ mt' = MtShutdown(mt)
    /\ Return(c, Ok("message"))
    /\ UNCHANGED lost /\ StepFrame

NativeCall(c) ==
    \/ \E ok \in BOOLEAN : TcInit(c, ok)
    \/ \E avail \in BOOLEAN : TcAcct(c, avail)
    \/ CwcShutdown(c)
    \/ \E ok \in BOOLEAN : CwcInit(c, ok)
    \/ \E keep \in BOOLEAN : CwcLogin(c, keep)
    \/ CwcLoginFailed(c)
    \/ \E avail \in BOOLEAN : CwcAcct(c, avail)
    \/ CwcAcctFailed(c)
    \/ \E avail \in BOOLEAN : GetSymbols(c, avail)
    \/ \E avail \in BOOLEAN : GetMarketData(c, avail)
    \/ \E avail \in BOOLEAN : GetTick(c, avail)
    \/ \E outcome \in OrderOutcomes : PlaceOrder(c, outcome)
    \/ \E avail \in BOOLEAN : GetPositions(c, avail)
    \/ \E found \in BOOLEAN : ClosePositionLookup(c, found)
    \/ \E outcome \in OrderOutcomes : ClosePositionSend(c, outcome)
    \/ ShutdownMt5(c)

Next ==
    \/ \E ok \in BOOLEAN : Main(ok)
    \/ \E ok \in BOOLEAN : StartServer(ok)
    \/ \E c \in Clients : Connect(c)
    \/ \E c \in Clients, m \in Messages : Receive(c, m)
    \/ \E c \in Clients : NativeCall(c)
    \/ \E c \in Clients : PeerClose(c)
    \/ \E c \in Clients : SendFails(c)

Spec == Init /\ [][Next]_vars

\* ------------------------------------------------- the Command Executor
\* sys.argv[1:] of an invocation: no command, or a command and arguments.
XArgvs ==
    {<<>>} \cup
    UNION { { <<cmd>> \o a : a \in ArgsFor(cmd) } :
              cmd \in Commands \cup {"bogus"} }

XInit ==
    /\ SrvInit
    /\ TIdle
    /\ xpc = "start"
    /\ xargv \in XArgvs
    /\ xmt \in InitMt
    /\ xout = 0
    /\ xshut = 0
    /\ xraised = FALSE

\* main() without a command: one JSON object, then return (lines 244-246).
XNoCommand ==
    /\ xpc = "start"
    /\ Len(xargv) = 0
    /\ xout' = xout + 1
    /\ xpc' = "exit"
    /\ UNCHANGED <<xargv, xmt, xshut, xraised>>
    /\ UNCHANGED <<srvVars, tVars>>

\* connect_mt5(): mt5.initialize().  On failure main prints the connect
\* result and returns (lines 252-254).
XConnectInit(ok) ==
    /\ xpc = "start"
    /\ Len(xargv) > 0
    /\ xmt' = MtInitialize(xmt, ok)
    /\ IF ok
       THEN xpc' = "connect_acct" /\ xout' = xout
       ELSE xpc' = "exit" /\ xout' = xout + 1
    /\ UNCHANGED <<xargv, xshut, xraised>>
    /\ UNCHANGED <<srvVars, tVars>>

\* connect_mt5(): mt5.account_info().  Without account info main prints the
\* connect result and returns, the terminal still initialized.
XConnectAcct(avail) ==
    /\ xpc = "connect_acct"
    /\ IF MtAccountInfo(xmt, avail) = NoAccount
       THEN xpc' = "exit" /\ xout' = xout + 1
       ELSE xpc' = "dispatch" /\ xout' = xout
    /\ UNCHANGED <<xargv, xmt, xshut, xraised>>
    /\ UNCHANGED <<srvVars, tVars>>

\* The exception, if any, that a branch of main's dispatch raises outside
\* every except clause: IndexError for a missing sys.argv element,
\* ValueError for int() or float() of a non-numeric one (lines 261-263,
\* 274, 284-286, 299, and int(login) at line 41, reached when the
\* initialize() before it succeeded).
XRaises(argv, ok) ==
    LET cmd == argv[1]
        n == Len(argv) - 1 IN
    CASE cmd = "connect_with_credentials" ->
            n < 3 \/ (ok /\ ~IsNum(argv[2]))
      [] cmd = "get_market_data" -> n >= 3 /\ ~IsNum(argv[4])
      [] cmd = "place_order" -> n < 3 \/ ~IsNum(argv[3]) \/ ~IsNum(argv[4])
      [] cmd = "close_position" -> n < 1 \/ ~IsNum(argv[2])
      [] OTHER -> FALSE

\* The terminal session after the dispatched operation's native calls.
XSession(argv, t, ok, keep, avail) ==
    LET cmd == argv[1] IN
    CASE cmd = "connect_with_credentials" /\ Len(argv) >= 4 ->
            LET t1 == MtInitialize(MtShutdown(t), ok)
                t2 == MtLogin(t1, argv[2], keep) IN
              IF ~ok \/ ~IsNum(argv[2]) THEN t1
              ELSE IF ~MtAccepts(t1, argv[2]) THEN MtShutdown(t2)
              ELSE IF MtAccountInfo(t2, avail) = NoAccount THEN MtShutdown(t2)
              ELSE t2
      [] cmd = "shutdown" -> MtShutdown(t)
      [] OTHER -> t

\* mt5.shutdown() calls the dispatched branch makes itself.
XBranchShutdowns(argv, ok, avail) ==
    LET cmd == argv[1] IN
    CASE cmd = "connect_with_credentials" /\ Len(argv) >= 4 ->
            IF ok /\ IsNum(argv[2]) /\ (argv[2] # GoodLogin \/ ~avail)
            THEN 2 ELSE 1
      [] cmd = "shutdown" -> 1
      [] OTHER -> 0

\* The try block of main (lines 256-308): the branch of the command runs
\* its operation and prints the result, unless an exception leaves it.
XExecute(ok, keep, avail) ==
    /\ xpc = "dispatch"
    /\ xmt' = XSession(xargv, xmt, ok, keep, avail)
    /\ xshut' = xshut + XBranchShutdowns(xargv, ok, avail)
    /\ xraised' = XRaises(xargv, ok)
    /\ xout' = IF XRaises(xargv, ok) THEN xout ELSE xout + 1
    /\ xpc' = "finally"
    /\ UNCHANGED xargv
    /\ UNCHANGED <<srvVars, tVars>>

\* The finally clause (lines 310-311): mt5.shutdown(), then the process
\* ends, with the traceback of a pending exception.
XFinally ==
    /\ xpc = "finally"
    /\ xmt' = MtShutdown(xmt)
    /\ xshut' = xshut + 1
    /\ xpc' = "exit"
    /\ UNCHANGED <<xargv, xout, xraised>>
    /\ UNCHANGED <<srvVars, tVars>>

XNext ==
    \/ XNoCommand
    \/ \E ok \in BOOLEAN : XConnectInit(ok)
    \/ \E avail \in BOOLEAN : XConnectAcct(avail)
    \/ \E ok \in BOOLEAN, keep \in BOOLEAN, avail \in BOOLEAN :
          XExecute(ok, keep, avail)
    \/ XFinally

SpecExec == XInit /\ [][XNext]_vars

\* ------------------------------------------- the order operations
\* place_order and close_position of both programs, followed call by call:
\* the request each passes to mt5.order_send is kept in orders.

MaxPrice == 1       \* price, sl and tp inputs range over -MaxPrice..MaxPrice
MaxTicket == 2      \* position tickets are 1..MaxTicket
MaxVolume == 2      \* position volumes are 1..MaxVolume

ORDER_TYPE_BUY == 0
ORDER_TYPE_SELL == 1

Symbols == {"EURUSD", "GBPUSD"}

\* An argument as the operation receives it: a JSON number or a string (the
\* Session Server passes the elements of "args" as they were decoded; the
\* Command Executor's arguments are the strings of sys.argv).
Num(v) == [t |-> "num", v |-> v, s |-> ""]
Str(s) == [t |-> "str", v |-> 0, s |-> s]

\* The numbers whose decimal text the model's inputs use.
Literals == (-MaxPrice..MaxPrice) \cup (0..(MaxTicket + 1))

\* Python's float(x) and int(x) of a number or a string: the number itself,
\* or the number the string is the decimal text of; ValueError for any
\* other string.
Converts(x) == x.t = "num" \/ \E i \in Literals : ToString(i) = x.s

Float(x) ==
    IF x.t = "num" THEN x.v
    ELSE CHOOSE i \in Literals : ToString(i) = x.s

\* dict item assignment: request[k] = v.
Put(d, k, v) == [x \in DOMAIN d \cup {k} |-> IF x = k THEN v ELSE d[x]]

\* The parameter at position i, or the default 0 of price, sl and tp.
Param(args, i) == IF Len(args) >= i THEN args[i] ELSE Num(0)

\* The arguments a string argument list of the Command Executor may carry,
\* and those of a Session Server request.
PriceInputs(entry) ==
    { Str(ToString(i)) : i \in -MaxPrice..MaxPrice } \cup {Str("x")}
    \cup IF entry = "server" THEN { Num(i) : i \in -MaxPrice..MaxPrice }
                             ELSE {}

TailInputs(entry) ==
    {<<>>}
    \cup { <<p>> : p \in PriceInputs(entry) }
    \cup { <<p, q>> : p \in PriceInputs(entry), q \in PriceInputs(entry) }
    \cup { <<p, q, r>> : p \in PriceInputs(entry), q \in PriceInputs(entry),
                         r \in PriceInputs(entry) }

Entries == {"server", "cli"}

TypeInputs(entry) ==
    IF entry = "server" THEN {Num(ORDER_TYPE_BUY), Str("1")}
                        ELSE {Str("0"), Str("1")}

VolumeInputs(entry) ==
    IF entry = "server" THEN {Num(1), Str("x")} ELSE {Str("1"), Str("x")}

PlaceOrderCalls ==
    UNION { { [entry |-> e, op |-> "place_order",
               args |-> <<Str("EURUSD"), ty, vol>> \o tail] :
                ty \in TypeInputs(e), vol \in VolumeInputs(e),
                tail \in TailInputs(e) } : e \in Entries }

TicketInputs(entry) ==
    { Str(ToString(i)) : i \in 1..(MaxTicket + 1) } \cup {Str("x")}
    \cup IF entry = "server" THEN { Num(i) : i \in 1..(MaxTicket + 1) }
                             ELSE {}

ClosePositionCalls ==
    UNION { { [entry |-> e, op |-> "close_position", args |-> <<tk>>] :
                tk \in TicketInputs(e) } : e \in Entries }

\* The terminal's open positions: at most one per ticket.
PositionSets ==
    { { [ticket |-> t, symbol |-> f[t].symbol, type |-> f[t].type,
         volume |-> f[t].volume] : t \in { u \in 1..MaxTicket : f[u].open } } :
        f \in [1..MaxTicket ->
                 [open : BOOLEAN, symbol : Symbols,
                  type : {ORDER_TYPE_BUY, ORDER_TYPE_SELL},
                  volume : 1..MaxVolume]] }

\* int(x): on whole numbers and their decimal text it is float(x).
ToInt(x) == Float(x)

\* if float(price) > 0: request["price"] = float(price), and the same for
\* sl and tp (in the Command Executor main has applied float() already).
WithField_NonNegative(d, k, x) ==
    IF Float(x) >= 0 THEN Put(d, k, Float(x)) ELSE d

WithField(d, k, x) == IF Float(x) > 0 THEN Put(d, k, Float(x)) ELSE d

\* The request place_order builds from its converted arguments.
PlaceOrderRequest(args) ==
    LET base == [action |-> "TRADE_ACTION_DEAL", symbol |-> args[1].s,
                 volume |-> Float(args[3]), type |-> ToInt(args[2]),
                 comment |-> "", type_time |-> "ORDER_TIME_GTC",
                 type_filling |-> "ORDER_FILLING_IOC"]
    IN  WithField(WithField(WithField(base, "price", Param(args, 4)),
                            "sl", Param(args, 5)),
                  "tp", Param(args, 6))

\* The side of the order that closes a position of side ty.
InverseSide_Same(ty) == ty

InverseSide(ty) ==
    IF ty = ORDER_TYPE_BUY THEN ORDER_TYPE_SELL ELSE ORDER_TYPE_BUY

\* The request close_position builds from the position it found.
CloseRequest(p) ==
    [action |-> "TRADE_ACTION_DEAL", symbol |-> p.symbol,
     volume |-> p.volume, type |-> InverseSide(p.type),
     position |-> p.ticket, type_time |-> "ORDER_TIME_GTC",
     type_filling |-> "ORDER_FILLING_IOC",
     comment |-> "Position closed by trading bot"]

\* mt5.positions_get(ticket=n): those of the positions ps the terminal
\* reports that have the ticket.  (Without a session the terminal reports
\* none: the call returns None, which "if not positions" treats as the
\* empty tuple.)
PositionsGet(ps, n) == { p \in ps : p.ticket = n }

TradeInit ==
    /\ SrvInit
    /\ XIdle
    /\ call \in PlaceOrderCalls \cup ClosePositionCalls
    /\ tpc = "call"
    /\ positions \in IF call.op = "close_position" THEN PositionSets
                                                   ELSE {{}}
    /\ position = NoPosition
    /\ orders = <<>>
    /\ result = NoStep
    /\ ret = NoRet

\* A conversion raises ValueError before any request is sent: the Session
\* Server's methods convert inside their try and return the failure; the
\* Command Executor converts in main, outside every except clause.
ConversionFails ==
    /\ tpc' = IF call.entry = "server" THEN "returned" ELSE "raised"
    /\ ret' = IF call.entry = "server"
              THEN TradeResult(FALSE, "ValueError", NoTicket)
              ELSE ret
    /\ UNCHANGED <<orders, result, position>>

\* place_order: the conversions, the request, mt5.order_send, the result.
TradePlaceOrder(outcome) ==
    /\ tpc = "call"
    /\ call.op = "place_order"
    /\ IF \E i \in 2..Len(call.args) : ~Converts(call.args[i])
       THEN ConversionFails
       ELSE /\ orders' = Append(orders, PlaceOrderRequest(call.args))
            /\ result' = outcome
            /\ ret' = CASE outcome = "None" ->
                             TradeResult(FALSE, "Order send failed", NoTicket)
                        [] outcome = "rejected" ->
                             TradeResult(FALSE, "Order failed", NoTicket)
                        [] OTHER -> TradeResult(TRUE, Absent, NoTicket)
            /\ tpc' = "returned"
            /\ UNCHANGED position
    /\ UNCHANGED <<call, positions>>
    /\ UNCHANGED <<srvVars, xVars>>

\* close_position: int(ticket), mt5.positions_get(ticket=...), and the
\* not-found return when it yields None or an empty tuple.
TradeClosePositionLookup ==
    /\ tpc = "call"
    /\ call.op = "close_position"
    /\ IF ~Converts(call.args[1])
       THEN ConversionFails
       ELSE LET found == PositionsGet(positions, ToInt(call.args[1])) IN
              IF found = {}
              THEN /\ ret' = TradeResult(FALSE, "Position not found", NoTicket)
                   /\ tpc' = "returned"
                   /\ UNCHANGED <<orders, result, position>>
              ELSE /\ position' = CHOOSE p \in found : TRUE
                   /\ tpc' = "send"
                   /\ UNCHANGED <<orders, result, ret>>
    /\ UNCHANGED <<call, positions>>
    /\ UNCHANGED <<srvVars, xVars>>

\* close_position: the closing request and mt5.order_send.  A None result
\* raises AttributeError at result.retcode, which the method's except
\* returns as a failure.
TradeClosePositionSend(outcome) ==
    /\ tpc = "send"
    /\ orders' = Append(orders, CloseRequest(position))
    /\ result' = outcome
    /\ ret' = CASE outcome = "None" ->
                     TradeResult(FALSE, "AttributeError", NoTicket)
                [] outcome = "rejected" ->
                     TradeResult(FALSE, "Close failed", NoTicket)
                [] OTHER ->
                     TradeResult(TRUE, Absent, Num(ToInt(call.args[1])))
    /\ tpc' = "returned"
    /\ UNCHANGED <<call, positions, position>>
    /\ UNCHANGED <<srvVars, xVars>>

TradeNext ==
    \/ \E outcome \in OrderOutcomes : TradePlaceOrder(outcome)
    \/ TradeClosePositionLookup
    \/ \E outcome \in OrderOutcomes : TradeClosePositionSend(outcome)

SpecTrade == TradeInit /\ [][TradeNext]_vars

\* ------------------------------------------------------------ properties
\* The last step sent an envelope.
Answered == sent.to # {}

Populated(r) == r.payload # Absent

SuccessShape(e) == e.success /\ e.hasResult /\ Populated(e.result)

FailureShape(e) == ~e.success /\ e.error \notin {Absent, ""}

\* C1: every envelope the Session Server sends is either success=true with
\* a populated result payload or success=false with a non-empty top-level
\* error message, never both and never neither.
C1_EnvelopeExactlyOne ==
    Answered =>
        /\ SuccessShape(sent.env) \/ FailureShape(sent.env)
        /\ ~(SuccessShape(sent.env) /\ FailureShape(sent.env))
        /\ FailureShape(sent.env) => ~sent.env.hasResult

\* C2: whenever the Command Executor has exited, on whichever path, it has
\* called the terminal's shutdown.
C2_ShutdownOnEveryExit == xpc = "exit" => xshut > 0

\* C3: whenever the Command Executor has exited it has printed exactly one
\* JSON object and no exception has left main uncaught.
C3_OneJsonPerInvocation == xpc = "exit" => (xout = 1 /\ ~xraised)

\* C4: a message that is not valid JSON is answered with exactly
\* {id: null, success: false, error: "Invalid JSON format"}, and the
\* connection stays open with its handler waiting for the next message.
C4_InvalidJsonAnswer ==
    \A c \in sent.to :
        sent.kind \in {"badjson", "undecodable"} =>
            /\ sent.env = InvalidJson
            /\ pc[c] = "recv"
            /\ c \in clients

\* C5: the identifier of every response is the identifier of the message
\* it answers (null when the message gave none), never that of an earlier
\* message.
C5_IdEchoed == Answered => sent.env.id = sent.id

\* C6: no message makes a connection's handler terminate: a handler never
\* ends by an exception that escaped the message loop, leaving the message
\* unanswered and the connection closed.
C6_HandlerSurvives == \A c \in Clients : pc[c] # "crashed"

\* C7: at most one connection's handler is inside a command at any time,
\* so the native calls of one command are never interleaved with those of
\* another.
C7_CommandsSerialized ==
    \A c1, c2 \in Clients :
        (pc[c1] = "run" /\ pc[c2] = "run") => c1 = c2

\* C7 witness: one handler is between the native calls of a multi-call
\* command (after close_position's lookup, or after the shutdown and
\* initialize of connect_with_credentials) while another connection is open
\* and its handler waits for the loop to hand it its next request.
C7_Witness ==
    \E c1, c2 \in Clients :
        /\ c1 # c2
        /\ pc[c1] = "run"
        /\ step[c1] \in {"cp_send", "cwc_login"}
        /\ pc[c2] = "recv"
        /\ c2 \in clients

\* C8: a connect_with_credentials that the terminal rejects returns with
\* the session torn down, and a later successful test_connection does not
\* report the account of the session that the rejected call replaced.
C8_NoResidualSession ==
    Answered =>
        /\ (sent.command = "connect_with_credentials"
              /\ sent.env.result.error = "Login failed") => ~mt.init
        /\ (sent.command = "test_connection" /\ sent.env.success
              /\ lost # NoAccount) => sent.env.result.account # lost

\* C9: a query or order command answered while the server has no terminal
\* session is answered with success:false.
C9_NoSessionNoSuccess ==
    (Answered /\ sent.command \in QueryCommands /\ ~mt.init)
        => ~sent.env.success

\* C10: the server never gives up starting because the terminal could not
\* be initialized.
C10_StartupSurvivesInitFailure == srv # "exited"

\* The fields of the request that carry the price, sl and tp parameters,
\* by the parameters' positions in the argument list.
PriceFields == [i \in 4..6 |-> <<"price", "sl", "tp">>[i - 3]]

\* C11: every request place_order passes to order_send has the price field
\* exactly when the price input is greater than zero, and the same for sl
\* and tp, each on its own; a zero or negative input is not in the request.
C11_FieldsOnlyWhenPositive ==
    call.op = "place_order" =>
        \A n \in 1..Len(orders) : \A i \in DOMAIN PriceFields :
            /\ PriceFields[i] \in DOMAIN orders[n]
                  <=> Float(Param(call.args, i)) > 0
            /\ PriceFields[i] \in DOMAIN orders[n]
                  => orders[n][PriceFields[i]] = Float(Param(call.args, i))

\* C11 witness: place_order has sent a request that has the price of a
\* positive price input but neither the negative sl nor the zero tp given
\* with it.
C11_Witness ==
    /\ call.op = "place_order"
    /\ tpc = "returned"
    /\ Len(orders) = 1
    /\ Len(call.args) = 6
    /\ Float(call.args[4]) > 0 /\ "price" \in DOMAIN orders[1]
    /\ Float(call.args[5]) < 0 /\ "sl" \notin DOMAIN orders[1]
    /\ Float(call.args[6]) = 0 /\ "tp" \notin DOMAIN orders[1]

\* The open positions that have the ticket close_position was called with.
Ticketed ==
    IF Converts(call.args[1])
    THEN { p \in positions : p.ticket = ToInt(call.args[1]) }
    ELSE {}

\* C12: close_position of a ticket no open position has returns a
\* not-found failure and sends no order; otherwise it sends exactly one
\* order, with the position's symbol, volume and ticket and the inverse of
\* its side, and it returns success, with that ticket, only when
\* order_send reported done.
C12_ClosePosition ==
    (call.op = "close_position" /\ tpc = "returned") =>
        /\ Ticketed = {} =>
              /\ orders = <<>>
              /\ ~ret.success
              /\ Converts(call.args[1]) => ret.error = "Position not found"
        /\ \A p \in Ticketed :
              /\ Len(orders) = 1
              /\ orders[1].symbol = p.symbol
              /\ orders[1].volume = p.volume
              /\ orders[1].position = p.ticket
              /\ p.type = ORDER_TYPE_BUY => orders[1].type = ORDER_TYPE_SELL
              /\ p.type = ORDER_TYPE_SELL => orders[1].type = ORDER_TYPE_BUY
              /\ ret.success =>
                    (result = "done" /\ ret.closed_ticket = Num(p.ticket))

\* C12 witness: close_position has closed a BUY position with a SELL
\* order and returned success, while another position stays open.
C12_Witness ==
    /\ call.op = "close_position"
    /\ tpc = "returned"
    /\ ret.success
    /\ Len(orders) = 1
    /\ orders[1].type = ORDER_TYPE_SELL
    /\ \E p \in positions :
          p.ticket = orders[1].position /\ p.type = ORDER_TYPE_BUY
    /\ \E q \in positions : q.ticket # orders[1].position

\* C13: the clients set holds exactly the connections whose handler is
\* running (waiting for a message or inside a command): a handler that
\* ended, however it ended, has left the set, and a handler that ends is
\* in the set, so that its one removal removes it.
C13_ClientsAreRunningHandlers ==
    clients = { c \in Clients : pc[c] \in {"recv", "run"} }

\* C13 witness: one connection's handler has ended by an exception that
\* escaped the message loop and is out of the set, while another
\* connection's handler is running and in it.
C13_Witness ==
    \E c1, c2 \in Clients :
        /\ pc[c1] = "crashed" /\ c1 \notin clients
        /\ pc[c2] \in {"recv", "run"} /\ c2 \in clients

====
